---- MODULE Spec2Model ----
(***************************************************************************)
(* A model of the two operator scripts of fortinet-tools:                  *)
(*                                                                         *)
(*   upgradeFortigateFirmware.py  the fleet firmware upgrader              *)
(*   BasicFgtSdwanConfig.py       the SD-WAN provisioner                   *)
(*                                                                         *)
(* Both scripts are sequential programs.  Each is cut into steps at its    *)
(* input and request points; the answer of the user, of the file system    *)
(* and of the firewall to each step is chosen nondeterministically.  An    *)
(* exception nobody catches ends the run: pc = "crashed".                  *)
(*                                                                         *)
(* Strings the scripts inspect character by character (the image filename, *)
(* firmware versions) are sequences of one-character strings.  For these,  *)
(* Python's None is the empty sequence: the scripts only ever test them    *)
(* for truth, and None and "" are both false.                              *)
(***************************************************************************)
EXTENDS Integers, Sequences, FiniteSets

VARIABLES
    \* ---- upgradeFortigateFirmware.py ------------------------------------
    pc,                 \* position of main(): "start", "row", "query", ...
    filename,           \* the image filename typed by the operator
    version,            \* parse_version_from_filename(filename), or None
    parses,             \* how many times the filename has been parsed
    image_readable,     \* whether open(filename, "rb") succeeds
    csv,                \* the rows of firewalls.csv, in file order
    row,                \* number of rows read so far (the current row)
    available_firmware, \* the local of main(): NoList or the candidates
    returned,           \* history: row -> candidates its query returned
    outcome,            \* history: row -> request kind -> what came back
    requests,           \* history: row -> the kinds of request sent to it
    sent,               \* history: rows in the order their query was sent
    printed,            \* history: row -> the messages printed about it
    files,              \* the rows whose backup file was written
    used,               \* history: row -> version / filename used for it
    \* ---- BasicFgtSdwanConfig.py -----------------------------------------
    spc,                \* position of main()
    vdoms,              \* the 'results' of the VDOM query
    vdom,               \* the local 'vdom': Unbound or a name
    prompted,           \* whether the operator was shown the VDOM menu
    routes,             \* the 'results' of the static-route query
    status,             \* stage -> status of its response
    issued,             \* the requests sent, in order
    sprinted            \* the messages printed, in order

upVars == <<pc, filename, version, parses, image_readable, csv, row,
            available_firmware, returned, outcome, requests, sent, printed,
            files, used>>
sdVars == <<spc, vdoms, vdom, prompted, routes, status, issued, sprinted>>
vars == <<upVars, sdVars>>

\* ------------------------------------------------------------------ bounds
\* Longest filename of the specification that enumerates filenames.
MaxLen == 7
\* Most rows in firewalls.csv.
MaxRows == 3
\* Most static routes in the answer to the route query.
MaxRoutes == 3

\* ------------------------------------------------------------ Python values
None == <<>>
Digits == {"0", "1", "2", "3", "4", "5", "6", "7", "8", "9"}

\* ---------------------------------------------------------------------
\* re.search(r"v?(\d+\.\d+\.\d+)", filename)
\* ---------------------------------------------------------------------

\* \d+ at position q, greedy: the number of digits it can take at most.
RECURSIVE DigitRun(_, _)
DigitRun(s, q) ==
    IF q > Len(s) \/ s[q] \notin Digits THEN 0 ELSE 1 + DigitRun(s, q + 1)

IsDot(s, q) == q <= Len(s) /\ s[q] = "."

Greatest(S) == CHOOSE x \in S : \A y \in S : y <= x

\* The last \d+ of the group, at q: the index of its last character, 0 if it
\* does not match.
MatchPatch(s, q) ==
    IF DigitRun(s, q) = 0 THEN 0 ELSE q + DigitRun(s, q) - 1

\* \d+\.\d+ (minor, then patch) at q.  The engine tries the longest \d+
\* first and gives digits back until the rest matches.
MatchMinor(s, q) ==
    LET ok == {k \in 1..DigitRun(s, q) :
                  IsDot(s, q + k) /\ MatchPatch(s, q + k + 1) # 0}
    IN  IF ok = {} THEN 0 ELSE MatchPatch(s, q + Greatest(ok) + 1)

\* The group (\d+\.\d+\.\d+) at q: the index of its last character, or 0.
MatchGroup(s, q) ==
    LET ok == {k \in 1..DigitRun(s, q) :
                  IsDot(s, q + k) /\ MatchMinor(s, q + k + 1) # 0}
    IN  IF ok = {} THEN 0 ELSE MatchMinor(s, q + Greatest(ok) + 1)

\* The whole pattern at p: v? takes a "v" if there is one and the group
\* matches after it, and otherwise nothing.  The result is group(1) as
\* <<first, last>>, or <<0, 0>>.
MatchAt(s, p) ==
    IF p <= Len(s) /\ s[p] = "v" /\ MatchGroup(s, p + 1) # 0
    THEN <<p + 1, MatchGroup(s, p + 1)>>
    ELSE IF MatchGroup(s, p) # 0 THEN <<p, MatchGroup(s, p)>> ELSE <<0, 0>>

\* re.search: the match at the first position that has one.
RECURSIVE SearchFrom(_, _)
SearchFrom(s, p) ==
    IF p > Len(s) THEN <<0, 0>>
    ELSE IF MatchAt(s, p) # <<0, 0>> THEN MatchAt(s, p)
    ELSE SearchFrom(s, p + 1)

re_search(s) == SearchFrom(s, 1)

\* parse_version_from_filename with the "v" of line 76 forgotten.
parse_version_keeps_group(name) ==
    LET m == re_search(name)
    IN  IF m # <<0, 0>> THEN SubSeq(name, m[1], m[2]) ELSE None

parse_version_from_filename(name) ==
    LET m == re_search(name)
    IN  IF m # <<0, 0>> THEN <<"v">> \o SubSeq(name, m[1], m[2]) ELSE None

\* ---------------------------------------------------------------------
\* upgradeFortigateFirmware.py: the values the run works on
\* ---------------------------------------------------------------------
V741 == <<"v", "7", ".", "4", ".", "1">>
V725 == <<"v", "7", ".", "2", ".", "5">>
Bare741 == <<"7", ".", "4", ".", "1">>

\* Filenames the operator may type at the prompt of main().
ImageNames ==
    { <<"F", "G", "T", "_", "u", "p", "g", "r", "a", "d", "e", "_", "v", "7", ".", "4", ".", "1", ".", "o", "u", "t">>,
      <<"F", "G", "T", "-", "7", ".", "2", ".", "5", ".", "o", "u", "t">>,
      <<"f", "i", "r", "m", "w", "a", "r", "e", "_", "i", "m", "a", "g", "e", ".", "o", "u", "t">> }

\* A cell of firewalls.csv is a string; a cell the row lacks is read as None.
Absent == "<None>"
Truthy(cell) == cell # Absent /\ cell # ""

Row(n, ip, tok) == [fgt_name |-> n, fw_ip |-> ip, api_token |-> tok]
GoodRow == Row("fgt", "192.0.2.1", "token")
RowShapes ==
    { GoodRow,
      Row("", "192.0.2.1", "token"),
      Row("fgt", Absent, "token"),
      Row("fgt", "192.0.2.1", Absent) }

\* Line 113 of main(): fgt_name and fw_ip and api_token.
WellFormed(r) == Truthy(r.fgt_name) /\ Truthy(r.fw_ip) /\ Truthy(r.api_token)

Inventories == UNION {[1..n -> RowShapes] : n \in 0..MaxRows}

\* An entry of results.available in the firmware answer.  A key the entry
\* lacks is read by fw.get as None: None for the version, 0 for the build
\* and "" for the others, each false like None.
Firmware(v, b, r, m) ==
    [version |-> v, build |-> b, releaseType |-> r, maturity |-> m]
Answers ==
    { <<>>,
      <<Firmware(V725, 1517, "GA", "M")>>,
      <<Firmware(V725, 1517, "GA", "M"), Firmware(V741, 2463, "GA", "F")>>,
      <<Firmware(V741, 0, "GA", "F")>>,
      <<Firmware(V741, 2463, "GA", "")>>,
      <<Firmware(Bare741, 2463, "GA", "F"), Firmware(None, 2463, "GA", "F")>> }

\* What a request can come back with: status 200, another status, or an
\* exception raised by requests (or by the parsing of the answer).
Responses == {"200", "500", "exception"}

\* main()'s local available_firmware: None, or a list.
NoList == [isNone |-> TRUE, items |-> <<>>]
List(s) == [isNone |-> FALSE, items |-> s]

NoOutcome == [query |-> "-", backup |-> "-", upload |-> "-"]
NoUse == [version |-> None, filename |-> None]

\* ---------------------------------------------------------------------
\* upgradeFortigateFirmware.py: get_available_firmware and the match
\* ---------------------------------------------------------------------

\* Lines 31-40: the entries with a version, a build, a release type and a
\* maturity, in the order of the answer.
RECURSIVE Candidates(_)
Candidates(answer) ==
    IF answer = <<>> THEN <<>>
    ELSE LET fw == Head(answer)
             keep == fw.version # None /\ fw.build # 0
                     /\ fw.releaseType # "" /\ fw.maturity # ""
         IN  (IF keep THEN <<fw>> ELSE <<>>) \o Candidates(Tail(answer))

\* The match of lines 126-130 done on the numbers, whatever the prefix.
version_found_loose(items, target) ==
    \E k \in DOMAIN items :
        \/ items[k].version = target
        \/ <<"v">> \o items[k].version = target

\* Lines 126-130: version_found, by string equality.
version_found(items, target) ==
    \E k \in DOMAIN items : items[k].version = target

upHist == <<returned, outcome, requests, sent, printed, files, used>>

Say(r, msgs) == printed' = [printed EXCEPT ![r] = @ \cup msgs]
Send(r, kind) == requests' = [requests EXCEPT ![r] = @ \cup {kind}]

\* ---------------------------------------------------------------------
\* upgradeFortigateFirmware.py: main()
\* ---------------------------------------------------------------------

\* Lines 100-104 with the check of the version left out.
MainStartUnchecked ==
    /\ pc = "start"
    /\ version' = parse_version_from_filename(filename)
    /\ parses' = parses + 1
    /\ pc' = "row"
    /\ UNCHANGED <<filename, image_readable, csv, row, available_firmware,
                   upHist, sdVars>>

\* Lines 100-104: parse the filename; exit(1) when it holds no version.
MainStart ==
    /\ pc = "start"
    /\ version' = parse_version_from_filename(filename)
    /\ parses' = parses + 1
    /\ pc' = IF version' = None THEN "exit1" ELSE "row"
    /\ UNCHANGED <<filename, image_readable, csv, row, available_firmware,
                   upHist, sdVars>>

\* Lines 109-118: the next row of the file, skipped when a cell is missing
\* or empty; the end of the loop after the last row.
NextRow ==
    /\ pc = "row"
    /\ IF row = Len(csv)
       THEN /\ pc' = "done"
            /\ UNCHANGED <<row, printed>>
       ELSE /\ row' = row + 1
            /\ IF WellFormed(csv[row'])
               THEN pc' = "query" /\ Say(row', {"Connecting"})
               ELSE pc' = "row" /\ Say(row', {"Missing information"})
    /\ UNCHANGED <<filename, version, parses, image_readable, csv,
                   available_firmware, returned, outcome, requests, sent,
                   files, used, sdVars>>

\* Lines 119-123 and 21-41: the firmware query.  An exception is caught and
\* the loop continues; a status other than 200 gives (None, None).
QueryFirmware ==
    /\ pc = "query"
    /\ Send(row, "query")
    /\ sent' = Append(sent, row)
    /\ \E resp \in Responses, answer \in Answers :
        /\ outcome' = [outcome EXCEPT ![row].query = resp]
        /\ \/ /\ resp = "exception"
              /\ Say(row, {"Unable to connect"})
              /\ pc' = "row"
              /\ UNCHANGED <<available_firmware, returned>>
           \/ /\ resp = "500"
              /\ Say(row, {"unable to retrieve firmware versions"})
              /\ available_firmware' = NoList
              /\ pc' = "options"
              /\ UNCHANGED returned
           \/ /\ resp = "200"
              /\ available_firmware' = List(Candidates(answer))
              /\ returned' = [returned EXCEPT ![row] = Candidates(answer)]
              /\ pc' = "options"
              /\ UNCHANGED printed
    /\ UNCHANGED <<filename, version, parses, image_readable, csv, row,
                   files, used, sdVars>>

\* Lines 125 and 43-48: print_firmware_options.  enumerate(None) raises a
\* TypeError, outside of any try.
PrintFirmwareOptions ==
    /\ pc = "options"
    /\ pc' = IF available_firmware.isNone THEN "crashed" ELSE "match"
    /\ UNCHANGED <<filename, version, parses, image_readable, csv, row,
                   available_firmware, upHist, sdVars>>

\* Lines 126-132 and 146-147: look the version up among the candidates.
MatchVersion ==
    /\ pc = "match"
    /\ used' = [used EXCEPT ![row].version = version]
    /\ IF version_found(available_firmware.items, version)
       THEN pc' = "backup" /\ UNCHANGED printed
       ELSE pc' = "row" /\ Say(row, {"not found"})
    /\ UNCHANGED <<filename, version, parses, image_readable, csv, row,
                   available_firmware, returned, outcome, requests, sent,
                   files, sdVars>>

\* Lines 134 and 81-96: save_configuration, called outside of any try.
SaveConfiguration ==
    /\ pc = "backup"
    /\ Send(row, "backup")
    /\ \E resp \in Responses :
        /\ outcome' = [outcome EXCEPT ![row].backup = resp]
        /\ \/ /\ resp = "exception"
              /\ pc' = "crashed"
              /\ UNCHANGED <<printed, files>>
           \/ /\ resp = "500"
              /\ Say(row, {"unable to retrieve configuration file"})
              /\ pc' = "upload"
              /\ UNCHANGED files
           \/ /\ resp = "200"
              /\ files' = files \cup {row}
              /\ Say(row, {"Configuration file saved"})
              /\ pc' = "upload"
    /\ UNCHANGED <<filename, version, parses, image_readable, csv, row,
                   available_firmware, returned, sent, used, sdVars>>

\* Lines 136-145 and 54-68: upload_firmware in its try, then the message
\* of line 145, printed whatever upload_firmware returned.
UploadFirmware ==
    /\ pc = "upload"
    /\ used' = [used EXCEPT ![row].filename = filename]
    /\ pc' = "row"
    /\ IF ~image_readable
       THEN \* open(filename, "rb") raises before any request
            /\ Say(row, {"started", "Unable to upgrade"})
            /\ UNCHANGED <<requests, outcome>>
       ELSE /\ Send(row, "upload")
            /\ \E resp \in Responses :
                /\ outcome' = [outcome EXCEPT ![row].upload = resp]
                /\ \/ /\ resp = "exception"
                      /\ Say(row, {"started", "Unable to upgrade"})
                   \/ /\ resp = "500"
                      /\ Say(row, {"started", "unable to upload",
                                   "completed"})
                   \/ /\ resp = "200"
                      /\ Say(row, {"started", "completed"})
    /\ UNCHANGED <<filename, version, parses, image_readable, csv, row,
                   available_firmware, returned, sent, files, sdVars>>

\* The provisioner is not running.
sdIdle ==
    /\ spc = "idle" /\ vdoms = <<>> /\ vdom = "" /\ prompted = FALSE
    /\ routes = <<>> /\ status = <<>> /\ issued = <<>> /\ sprinted = <<>>

InitUpgrade ==
    /\ pc = "start"
    /\ filename \in ImageNames
    /\ version = None
    /\ parses = 0
    /\ image_readable \in BOOLEAN
    /\ csv \in Inventories
    /\ row = 0
    /\ available_firmware = NoList
    /\ returned = [r \in DOMAIN csv |-> <<>>]
    /\ outcome = [r \in DOMAIN csv |-> NoOutcome]
    /\ requests = [r \in DOMAIN csv |-> {}]
    /\ sent = <<>>
    /\ printed = [r \in DOMAIN csv |-> {}]
    /\ files = {}
    /\ used = [r \in DOMAIN csv |-> NoUse]
    /\ sdIdle

NextUpgrade ==
    \/ MainStart
    \/ NextRow
    \/ QueryFirmware
    \/ PrintFirmwareOptions
    \/ MatchVersion
    \/ SaveConfiguration
    \/ UploadFirmware

SpecUpgrade == InitUpgrade /\ [][NextUpgrade]_vars

\* ---------------------------------------------------------------------
\* parse_version_from_filename alone, on every short filename
\* ---------------------------------------------------------------------
Alphabet == {"v", "1", "2", ".", "_"}
ShortNames == UNION {[1..n -> Alphabet] : n \in 0..MaxLen}

InitParse ==
    /\ pc = "start"
    /\ filename \in ShortNames
    /\ version = None
    /\ parses = 0
    /\ image_readable = TRUE
    /\ csv = <<>>
    /\ row = 0
    /\ available_firmware = NoList
    /\ returned = <<>>
    /\ outcome = <<>>
    /\ requests = <<>>
    /\ sent = <<>>
    /\ printed = <<>>
    /\ files = {}
    /\ used = <<>>
    /\ sdIdle

NextParse == MainStart

SpecParse == InitParse /\ [][NextParse]_vars

\* ---------------------------------------------------------------------
\* Properties of the fleet upgrader
\* ---------------------------------------------------------------------
Rows == DOMAIN csv
Ended == pc \in {"done", "crashed"}
ErrorMessages ==
    {"Missing information", "Unable to connect",
     "unable to retrieve firmware versions", "not found",
     "unable to retrieve configuration file", "unable to upload",
     "Unable to upgrade"}
\* The row's workflow ended in Failed: an error about it was reported and
\* it was not reported as completed.
Failed(r) == printed[r] \cap ErrorMessages # {} /\ "completed" \notin printed[r]
\* The well-formed rows among the first n, in file order.
RECURSIVE WellFormedUpTo(_)
WellFormedUpTo(n) ==
    IF n = 0 THEN <<>>
    ELSE WellFormedUpTo(n - 1) \o (IF WellFormed(csv[n]) THEN <<n>> ELSE <<>>)

\* C1: when the firmware query of a row fails (a status other than 200, or
\* an exception), no backup and no upload is requested of that device, the
\* row ends in Failed, and when the run is over every later well-formed row
\* has had its firmware query sent.  (Runs ended by a failing backup are
\* left aside: they are the matter of C4.)
C1_QueryFailureIsolated ==
    \A r \in Rows :
        outcome[r].query \in {"500", "exception"} =>
            /\ requests[r] \cap {"backup", "upload"} = {}
            /\ Failed(r)
            /\ (Ended /\ \A d \in Rows : outcome[d].backup # "exception") =>
                   \A j \in Rows :
                       (j > r /\ WellFormed(csv[j])) => "query" \in requests[j]

\* C2: a backup or an upload has been requested of a device only if the
\* version parsed from the filename is equal, as a string, to the version of
\* a candidate that this device's own firmware query returned.
C2_OnlyOwnCatalogMatch ==
    \A r \in Rows :
        requests[r] \cap {"backup", "upload"} # {} =>
            \E k \in DOMAIN returned[r] :
                /\ version # None
                /\ returned[r][k].version = version

\* C2's case: one device was uploaded to, and another, whose own answer
\* holds no candidate of that version, was asked for nothing but its list.
C2_Witness ==
    \E r1, r2 \in Rows :
        /\ r1 < r2
        /\ "upload" \in requests[r1]
        /\ outcome[r2].query = "200"
        /\ returned[r2] # <<>>
        /\ "not found" \in printed[r2]
        /\ requests[r2] = {"query"}

\* C3: a row with a missing or empty cell is sent nothing and is reported,
\* and it does not end the run: when the run is over, the rows whose query
\* was sent are exactly the well-formed rows, in file order.
C3_MalformedRowSkipped ==
    \A r \in Rows :
        ~WellFormed(csv[r]) =>
            /\ requests[r] = {}
            /\ (r <= row => "Missing information" \in printed[r])
            /\ Ended => sent = WellFormedUpTo(Len(csv))

\* C4: when the backup of a device fails, by its status or by an exception,
\* the failure is logged, no backup file is written and (the image being
\* readable) the upload is still requested of that device.
C4_BackupBestEffort ==
    \A r \in Rows :
        outcome[r].backup \in {"500", "exception"} =>
            /\ r \notin files
            /\ "unable to retrieve configuration file" \in printed[r]
            /\ \/ pc = "upload" /\ row = r
               \/ ~image_readable
               \/ "upload" \in requests[r]

\* C5: a device is reported as completed only if its upload request came
\* back with status 200; an upload that failed, by its status or by an
\* exception, leaves the device Failed and never reported as completed.
C5_DoneOnlyIfUploaded ==
    \A r \in Rows :
        /\ "completed" \in printed[r] => outcome[r].upload = "200"
        /\ outcome[r].upload \in {"500", "exception"} => Failed(r)

\* C10: the filename is parsed once, before any row is read; a filename
\* without a version ends the run at exit(1) with no row read and nothing
\* sent; otherwise every device is matched against that one version and
\* uploaded that one filename.
C10_VersionFixedAtStartup ==
    /\ pc = "start" => parses = 0 /\ row = 0
    /\ pc # "start" =>
           /\ parses = 1
           /\ version = parse_version_from_filename(filename)
           /\ version = None => pc = "exit1"
    /\ pc = "exit1" =>
           /\ version = None /\ row = 0 /\ sent = <<>>
           /\ \A r \in Rows : requests[r] = {} /\ printed[r] = {}
    /\ \A r \in Rows :
           /\ used[r].version \in {None, version}
           /\ used[r].filename \in {None, filename}
           /\ requests[r] \cap {"backup", "upload"} # {} =>
                  used[r].version = version
           /\ "upload" \in requests[r] => used[r].filename = filename

\* C10's case: two devices of one run were both uploaded the image.
C10_Witness ==
    \E r1, r2 \in Rows :
        /\ r1 < r2
        /\ "upload" \in requests[r1] /\ "upload" \in requests[r2]
        /\ used[r1] = used[r2]
        /\ used[r1].version # None

\* ---------------------------------------------------------------------
\* Properties of parse_version_from_filename
\* ---------------------------------------------------------------------
IsDigits(t) == t # <<>> /\ \A k \in DOMAIN t : t[k] \in Digits
\* t reads digits "." digits "." digits
IsVersionForm(t) ==
    \E a, b \in DOMAIN t :
        /\ a < b /\ t[a] = "." /\ t[b] = "."
        /\ IsDigits(SubSeq(t, 1, a - 1))
        /\ IsDigits(SubSeq(t, a + 1, b - 1))
        /\ IsDigits(SubSeq(t, b + 1, Len(t)))
\* Where such substrings lie in s: <<first, last>>
Occurrences(s) ==
    {o \in (DOMAIN s) \X (DOMAIN s) :
        o[1] <= o[2] /\ IsVersionForm(SubSeq(s, o[1], o[2]))}
\* The leftmost one, taken as long as it goes.
Leftmost(s) ==
    CHOOSE o \in Occurrences(s) :
        \A o2 \in Occurrences(s) :
            o[1] < o2[1] \/ (o[1] = o2[1] /\ o[2] >= o2[2])

\* C7: a filename that holds a substring digits.digits.digits gives "v"
\* followed by the leftmost such substring, and so exactly one leading "v";
\* a filename that holds none gives None.
C7_LeftmostVersion ==
    pc # "start" =>
        IF Occurrences(filename) = {}
        THEN version = None
        ELSE /\ version = <<"v">> \o SubSeq(filename, Leftmost(filename)[1],
                                            Leftmost(filename)[2])
             /\ version[2] \in Digits

\* C7's case: the version is not at the start of the name, an earlier
\* substring is cut short of the form, and the name had no "v".
C7_Witness ==
    /\ pc = "row"
    /\ filename = <<"2", ".", "1", ".", "2", ".", "1">>
    /\ version = <<"v", "2", ".", "1", ".", "2">>

\* ---------------------------------------------------------------------
\* BasicFgtSdwanConfig.py
\* ---------------------------------------------------------------------
\* The local 'vdom' of getTrafficVdomName before any assignment.
Unbound == "<unbound>"
VdomNames == {"root", "traffic", "dmz"}
\* The 'results' of the VDOM query: VDOMs of different names, in any order.
VdomLists ==
    {l \in UNION {[1..n -> [name : VdomNames]] : n \in 0..Cardinality(VdomNames)} :
        \A a, b \in DOMAIN l : a # b => l[a].name # l[b].name}

DefaultDst == "0.0.0.0 0.0.0.0"
OtherDst == "10.0.0.0 255.0.0.0"
Zone == "Internet SD-WAN"
\* The 'results' of the route query: the k-th route has seq_num 2k + 1.
RouteLists ==
    {[k \in DOMAIN d |-> [seq_num |-> 2 * k + 1, dst |-> d[k]]] :
        d \in UNION {[1..n -> {DefaultDst, OtherDst}] : n \in 0..MaxRoutes}}

Request(m, res, vd, seq, body) ==
    [method |-> m, resource |-> res, vdom |-> vd, seq_num |-> seq, body |-> body]

Stages == {"vdom", "zone", "member", "routes", "change"}
NoStatus == [s \in Stages |-> "-"]

\* What the operator may answer to "Enter the number of the VDOM: ".
MenuAnswers == -1..4

\* Lines 77-100: getTrafficVdomName up to its menu.  With exactly two
\* VDOMs the second is taken; 'vdom' stays unbound after a status other
\* than 200 and with fewer than two VDOMs, and "return vdom" then raises
\* UnboundLocalError.
GetTrafficVdomName ==
    /\ spc = "vdom"
    /\ issued' = Append(issued, Request("GET", "system/vdom", "", 0, ""))
    /\ \E resp \in Responses, results \in VdomLists :
        /\ status' = [status EXCEPT !["vdom"] = resp]
        /\ \/ /\ resp = "exception"
              /\ spc' = "crashed"
              /\ UNCHANGED <<vdoms, vdom, prompted, sprinted>>
           \/ /\ resp = "500"
              /\ sprinted' = Append(sprinted, "Failed to get the VDOMs")
              /\ spc' = "crashed"
              /\ UNCHANGED <<vdoms, vdom, prompted>>
           \/ /\ resp = "200"
              /\ vdoms' = results
              /\ IF Len(results) = 2
                 THEN /\ vdom' = results[2].name
                      /\ sprinted' = Append(sprinted, "The VDOM is set")
                      /\ spc' = "zone"
                      /\ UNCHANGED prompted
                 ELSE IF Len(results) > 2
                 THEN /\ prompted' = TRUE
                      /\ sprinted' = Append(sprinted, "Please select")
                      /\ spc' = "menu"
                      /\ UNCHANGED vdom
                 ELSE /\ spc' = "crashed"
                      /\ UNCHANGED <<vdom, prompted, sprinted>>
    /\ UNCHANGED <<routes, upVars>>

\* Lines 94-96: the operator's answer to the menu.  Python counts a
\* negative index from the end of the list; an index outside the list
\* raises IndexError and an answer that is no number raises ValueError.
SelectVdom ==
    /\ spc = "menu"
    /\ \/ \E vdom_number \in MenuAnswers :
            LET index == vdom_number - 1
                n == Len(vdoms)
            IN  IF index >= 0 /\ index < n
                THEN /\ vdom' = vdoms[index + 1].name
                     /\ sprinted' = Append(sprinted, "The VDOM is set")
                     /\ spc' = "zone"
                ELSE IF index < 0 /\ index >= -n
                THEN /\ vdom' = vdoms[n + index + 1].name
                     /\ sprinted' = Append(sprinted, "The VDOM is set")
                     /\ spc' = "zone"
                ELSE /\ spc' = "crashed"
                     /\ UNCHANGED <<vdom, sprinted>>
       \/ /\ spc' = "crashed"
          /\ UNCHANGED <<vdom, sprinted>>
    /\ UNCHANGED <<vdoms, prompted, routes, status, issued, upVars>>

\* Lines 105-116: createInternetSdwanZone.
CreateInternetSdwanZone ==
    /\ spc = "zone"
    /\ issued' = Append(issued, Request("PUT", "system/sdwan", vdom, 0, "zone"))
    /\ \E resp \in Responses :
        /\ status' = [status EXCEPT !["zone"] = resp]
        /\ \/ /\ resp = "exception"
              /\ spc' = "crashed"
              /\ UNCHANGED sprinted
           \/ /\ resp = "500"
              /\ sprinted' = Append(sprinted, "Failed to create zone")
              /\ spc' = "member"
           \/ /\ resp = "200"
              /\ sprinted' = Append(sprinted, "zone created")
              /\ spc' = "member"
    /\ UNCHANGED <<vdoms, vdom, prompted, routes, upVars>>

\* Lines 121-134: addInterfaceToSdwanZone.
AddInterfaceToSdwanZone ==
    /\ spc = "member"
    /\ issued' = Append(issued, Request("PUT", "system/sdwan", vdom, 0, "members"))
    /\ \E resp \in Responses :
        /\ status' = [status EXCEPT !["member"] = resp]
        /\ \/ /\ resp = "exception"
              /\ spc' = "crashed"
              /\ UNCHANGED sprinted
           \/ /\ resp = "500"
              /\ sprinted' = Append(sprinted, "Failed to add interface")
              /\ spc' = "routes"
           \/ /\ resp = "200"
              /\ sprinted' = Append(sprinted, "interface added")
              /\ spc' = "routes"
    /\ UNCHANGED <<vdoms, vdom, prompted, routes, upVars>>

\* Lines 140-143 and 169-171: the route query of configureDefaultRoute.
GetStaticRoutes ==
    /\ spc = "routes"
    /\ issued' = Append(issued, Request("GET", "router/static", vdom, 0, ""))
    /\ \E resp \in Responses, results \in RouteLists :
        /\ status' = [status EXCEPT !["routes"] = resp]
        /\ \/ /\ resp = "exception"
              /\ spc' = "crashed"
              /\ UNCHANGED <<routes, sprinted>>
           \/ /\ resp = "500"
              /\ sprinted' = Append(sprinted, "Failed to get the static routes")
              /\ spc' = "done"
              /\ UNCHANGED routes
           \/ /\ resp = "200"
              /\ routes' = results
              /\ spc' = "change"
              /\ UNCHANGED sprinted
    /\ UNCHANGED <<vdoms, vdom, prompted, upVars>>

\* The default route taken to be the last one of the list.
default_route_last(rs) ==
    LET found == {k \in DOMAIN rs : rs[k].dst = DefaultDst}
    IN  IF found = {} THEN 0 ELSE CHOOSE k \in found : \A j \in found : j <= k

\* Lines 144-145: next(route for route in routes if dst is the default),
\* as the place of that route in the list, 0 for None.
RECURSIVE NextDefault(_, _)
NextDefault(rs, k) ==
    IF k > Len(rs) THEN 0
    ELSE IF rs[k].dst = DefaultDst THEN k ELSE NextDefault(rs, k + 1)

default_route(rs) == NextDefault(rs, 1)

\* Lines 146-168: delete the default route found, or create one.
ChangeDefaultRoute ==
    /\ spc = "change"
    /\ LET found == default_route(routes)
       IN  \E resp \in Responses :
            /\ status' = [status EXCEPT !["change"] = resp]
            /\ IF found # 0
               THEN /\ issued' = Append(issued,
                         Request("DELETE", "router/static", vdom,
                                 routes[found].seq_num, ""))
                    /\ sprinted' =
                         IF resp = "200"
                         THEN Append(sprinted, "Default route deleted")
                         ELSE IF resp = "500"
                         THEN Append(sprinted, "Failed to delete default route")
                         ELSE sprinted
               ELSE /\ issued' = Append(issued,
                         Request("POST", "router/static", vdom, 0, Zone))
                    /\ sprinted' =
                         IF resp = "200"
                         THEN Append(sprinted, "Default route set")
                         ELSE IF resp = "500"
                         THEN Append(sprinted, "Failed to set default route")
                         ELSE sprinted
            /\ spc' = IF resp = "exception" THEN "crashed" ELSE "done"
    /\ UNCHANGED <<vdoms, vdom, prompted, routes, upVars>>

\* The upgrader is not running.
upIdle ==
    /\ pc = "idle" /\ filename = None /\ version = None /\ parses = 0
    /\ image_readable = TRUE /\ csv = <<>> /\ row = 0
    /\ available_firmware = NoList /\ returned = <<>> /\ outcome = <<>>
    /\ requests = <<>> /\ sent = <<>> /\ printed = <<>> /\ files = {}
    /\ used = <<>>

\* Lines 174-178: main() after getUserInput has returned.
InitSdwan ==
    /\ spc = "vdom"
    /\ vdoms = <<>>
    /\ vdom = Unbound
    /\ prompted = FALSE
    /\ routes = <<>>
    /\ status = NoStatus
    /\ issued = <<>>
    /\ sprinted = <<>>
    /\ upIdle

NextSdwan ==
    \/ GetTrafficVdomName
    \/ SelectVdom
    \/ CreateInternetSdwanZone
    \/ AddInterfaceToSdwanZone
    \/ GetStaticRoutes
    \/ ChangeDefaultRoute

SpecSdwan == InitSdwan /\ [][NextSdwan]_vars

\* ---------------------------------------------------------------------
\* Properties of the SD-WAN provisioner
\* ---------------------------------------------------------------------
SdwanEnded == spc \in {"done", "crashed"}
\* The stages of main(), in order, with the message each prints on failure.
StageOrder == <<"vdom", "zone", "member", "routes">>
FailureMessage ==
    [vdom |-> "Failed to get the VDOMs", zone |-> "Failed to create zone",
     member |-> "Failed to add interface",
     routes |-> "Failed to get the static routes"]
Printed(msg) == \E k \in DOMAIN sprinted : sprinted[k] = msg
\* The DELETE and POST requests sent, in order.
IsChange(req) == req.method \in {"DELETE", "POST"}
Changes == SelectSeq(issued, IsChange)

\* C6: when the VDOM query answers with exactly two VDOMs, root and one
\* other, in either order, the other one is selected and no menu is shown.
C6_AutoSelectNonRoot ==
    \A k \in {1, 2} :
        ( /\ status["vdom"] = "200"
          /\ Len(vdoms) = 2
          /\ vdoms[k].name = "root" ) =>
            vdom = vdoms[3 - k].name /\ ~prompted

\* C8: a stage that fails with a status other than 200 is reported and does
\* not halt the run: when the run is over, the request of every later stage
\* has been sent.  (Runs ended by an exception of the HTTP library are left
\* aside.)
C8_FailureDoesNotHalt ==
    \A a \in DOMAIN StageOrder :
        status[StageOrder[a]] = "500" =>
            /\ Printed(FailureMessage[StageOrder[a]])
            /\ (SdwanEnded /\ \A s \in Stages : status[s] # "exception") =>
                   \A b \in DOMAIN StageOrder :
                       b > a => status[StageOrder[b]] # "-"

\* C9: after a route query answered with 200, exactly one changing request
\* is sent: the DELETE of the first route to 0.0.0.0 0.0.0.0, by its
\* seq_num, if there is such a route, and no POST; otherwise the POST of a
\* default route bound to the Internet SD-WAN zone, and no DELETE.  After a
\* route query that failed, neither is sent.
C9_OneRouteChange ==
    /\ Len(Changes) <= 1
    /\ status["routes"] # "200" => Changes = <<>>
    /\ (status["routes"] = "200" /\ spc # "change") =>
           LET defaults == {k \in DOMAIN routes : routes[k].dst = DefaultDst}
           IN  IF defaults # {}
               THEN \E k \in defaults :
                       /\ \A j \in defaults : k <= j
                       /\ Changes = <<Request("DELETE", "router/static", vdom,
                                              routes[k].seq_num, "")>>
               ELSE Changes = <<Request("POST", "router/static", vdom, 0, Zone)>>

\* C9's case: of two default routes that follow another route, the first
\* was deleted.
C9_Witness ==
    /\ spc = "done"
    /\ Len(routes) = 3
    /\ routes[1].dst = OtherDst
    /\ routes[2].dst = DefaultDst
    /\ routes[3].dst = DefaultDst
    /\ Len(Changes) = 1
    /\ Changes[1].method = "DELETE"
    /\ Changes[1].seq_num = routes[2].seq_num

====
